---------------------------- MODULE Spec2Model ----------------------------
(***************************************************************************)
(* Model of chainer/functions/basic_math.py and chainer/functions/linear.py *)
(*                                                                         *)
(* Three state machines share the value layer defined first:               *)
(*   SpecMath     one basic_math operation instance, called forward and    *)
(*                backward on the CPU and the GPU implementation;          *)
(*   SpecDispatch the dispatch functions add, sub, ..., rpow and the        *)
(*                operator slots install_variable_arithmetics binds;       *)
(*   SpecLinear   one Linear instance, called forward and backward.        *)
(***************************************************************************)
EXTENDS Integers, Sequences, FiniteSets, TLC

(***************************************************************************)
(* Scalars.  Array elements are exact: a rational n/d, an IEEE special     *)
(* (nan, +inf, -inf), or a rational multiple of ln(a) or exp(a) with a     *)
(* rational.  Rounding to float32 is not modelled.                         *)
(***************************************************************************)
Abs(i) == IF i < 0 THEN -i ELSE i

Sgn(i) == IF i < 0 THEN -1 ELSE IF i = 0 THEN 0 ELSE 1

RECURSIVE Gcd(_, _)
Gcd(a, b) == IF b = 0 THEN a ELSE Gcd(b, a % b)

RECURSIVE IPow(_, _)
IPow(b, e) == IF e = 0 THEN 1 ELSE b * IPow(b, e - 1)

\* the rational n/d in lowest terms, d # 0
Q(n, d) ==
    LET g == Gcd(Abs(n), Abs(d))
        s == IF d < 0 THEN -1 ELSE 1
    IN  [t |-> "q", n |-> (s * n) \div g, d |-> (s * d) \div g, an |-> 0, ad |-> 1]

I(n) == Q(n, 1)

NaN == [t |-> "nan", n |-> 0, d |-> 1, an |-> 0, ad |-> 1]

Inf(s) == [t |-> "inf", n |-> s, d |-> 1, an |-> 0, ad |-> 1]

\* c * f(a), f in {"ln", "exp"}, c # 0
Sym(f, c, a) == [t |-> f, n |-> c.n, d |-> c.d, an |-> a.n, ad |-> a.d]

IsSym(x) == x.t \in {"ln", "exp"}

\* sign of a scalar that is not nan: ln(a) > 0 iff a > 1, exp(a) > 0
NSign(x) ==
    CASE x.t = "q" -> Sgn(x.n)
      [] x.t = "inf" -> x.n
      [] x.t = "ln" -> Sgn(x.n) * (IF x.an > x.ad THEN 1 ELSE -1)
      [] x.t = "exp" -> Sgn(x.n)

NNeg(x) ==
    CASE x.t = "nan" -> NaN
      [] x.t = "inf" -> Inf(-x.n)
      [] OTHER -> [x EXCEPT !.n = -x.n]

NAdd(x, y) ==
    CASE x.t = "nan" \/ y.t = "nan" -> NaN
      [] x.t = "q" /\ y.t = "q" -> Q(x.n * y.d + y.n * x.d, x.d * y.d)
      [] x.t = "inf" /\ y.t = "inf" -> IF x.n = y.n THEN x ELSE NaN
      [] x.t = "inf" /\ y.t = "q" -> x
      [] x.t = "q" /\ y.t = "inf" -> y

NSub(x, y) == NAdd(x, NNeg(y))

NMul(x, y) ==
    CASE x.t = "nan" \/ y.t = "nan" -> NaN
      [] x.t = "q" /\ y.t = "q" -> Q(x.n * y.n, x.d * y.d)
      [] x.t = "inf" \/ y.t = "inf" ->
            IF NSign(x) * NSign(y) = 0 THEN NaN ELSE Inf(NSign(x) * NSign(y))
      [] IsSym(x) /\ y.t = "q" ->
            IF y.n = 0 THEN I(0) ELSE Sym(x.t, Q(x.n * y.n, x.d * y.d), Q(x.an, x.ad))
      [] x.t = "q" /\ IsSym(y) ->
            IF x.n = 0 THEN I(0) ELSE Sym(y.t, Q(x.n * y.n, x.d * y.d), Q(y.an, y.ad))

\* IEEE division (the zero of a divisor is +0)
NDiv(x, y) ==
    CASE x.t = "nan" \/ y.t = "nan" -> NaN
      [] x.t = "q" /\ y.t = "q" ->
            IF y.n # 0 THEN Q(x.n * y.d, x.d * y.n)
            ELSE IF x.n = 0 THEN NaN ELSE Inf(Sgn(x.n))
      [] x.t = "inf" /\ y.t = "q" -> IF y.n < 0 THEN Inf(-x.n) ELSE x
      [] x.t = "q" /\ y.t = "inf" -> I(0)
      [] x.t = "inf" /\ y.t = "inf" -> NaN

\* x ** y for a rational base and an integer exponent
NPow(x, y) ==
    CASE x.t = "q" /\ y.t = "q" /\ y.d = 1 ->
            IF y.n >= 0 THEN Q(IPow(x.n, y.n), IPow(x.d, y.n))
            ELSE IF x.n = 0 THEN Inf(1)
            ELSE Q(IPow(x.d, -y.n), IPow(x.n, -y.n))

\* IEEE logarithm: log(0) = -inf, log(x < 0) = nan
NLog(x) ==
    CASE x.t = "q" ->
            IF x.n < 0 THEN NaN
            ELSE IF x.n = 0 THEN Inf(-1)
            ELSE IF x.n = x.d THEN I(0)
            ELSE Sym("ln", I(1), x)

NExp(x) ==
    CASE x.t = "q" -> IF x.n = 0 THEN I(1) ELSE Sym("exp", I(1), x)

NumOp(op, x, y) ==
    CASE op = "add" -> NAdd(x, y)
      [] op = "sub" -> NSub(x, y)
      [] op = "mul" -> NMul(x, y)
      [] op = "div" -> NDiv(x, y)
      [] op = "pow" -> NPow(x, y)

(***************************************************************************)
(* Python objects: a numpy/GPU array (1-d, C order), a Python number, a    *)
(* Variable wrapping an array, None, a str (an operand that supports no    *)
(* arithmetic), or a raised exception named by its type.                   *)
(***************************************************************************)
Obj(k, shape, data) == [k |-> k, shape |-> shape, data |-> data]

Array(data) == Obj("ndarray", <<Len(data)>>, data)

Number(x) == Obj("Number", <<>>, <<x>>)

Variable(a) == Obj("Variable", a.shape, a.data)

None == Obj("None", <<>>, <<>>)

Str == Obj("str", <<>>, <<>>)

Raise(exc) == Obj(exc, <<>>, <<>>)

ExcKinds == {"TypeError", "ZeroDivisionError", "ValueError", "AttributeError"}

IsExc(o) == o.k \in ExcKinds

IsNum(o) == o.k \in {"ndarray", "Number"}

\* Variable.data
DataOf(v) == Obj("ndarray", v.shape, v.data)

\* numpy broadcasting of two 1-d shapes (a Number broadcasts to anything)
Broadcastable(a, b) ==
    \/ a.k = "Number" \/ b.k = "Number"
    \/ Len(a.data) = Len(b.data)
    \/ Len(a.data) = 1 \/ Len(b.data) = 1

BShape(a, b) ==
    IF a.k = "Number" THEN b.shape
    ELSE IF b.k = "Number" THEN a.shape
    ELSE IF Len(a.data) >= Len(b.data) THEN a.shape ELSE b.shape

At(a, i) == IF Len(a.data) = 1 THEN a.data[1] ELSE a.data[i]

\* a op b as Python/numpy evaluate it
BinOp(op, a, b) ==
    IF IsExc(a) THEN a
    ELSE IF IsExc(b) THEN b
    ELSE IF ~IsNum(a) \/ ~IsNum(b) THEN Raise("TypeError")
    ELSE IF a.k = "Number" /\ b.k = "Number" THEN
        IF /\ op \in {"div", "pow"}
           /\ b.data[1].t = "q" /\ a.data[1].t = "q"
           /\ (op = "div" => b.data[1].n = 0)
           /\ (op = "pow" => a.data[1].n = 0 /\ b.data[1].n < 0)
        THEN Raise("ZeroDivisionError")
        ELSE Number(NumOp(op, a.data[1], b.data[1]))
    ELSE IF ~Broadcastable(a, b) THEN Raise("ValueError")
    ELSE LET shape == BShape(a, b)
         IN  Obj("ndarray", shape, [i \in 1..shape[1] |-> NumOp(op, At(a, i), At(b, i))])

\* -a
UNeg(a) ==
    IF IsExc(a) THEN a
    ELSE IF ~IsNum(a) THEN Raise("TypeError")
    ELSE Obj(a.k, a.shape, [i \in 1..Len(a.data) |-> NNeg(a.data[i])])

\* numpy.log / cumath.log / __logf: elementwise, IEEE
numpy_log(a) ==
    IF IsExc(a) THEN a
    ELSE IF ~IsNum(a) THEN Raise("TypeError")
    ELSE Obj(a.k, a.shape, [i \in 1..Len(a.data) |-> NLog(a.data[i])])

\* numpy.exp / cumath.exp
numpy_exp(a) ==
    IF IsExc(a) THEN a
    ELSE IF ~IsNum(a) THEN Raise("TypeError")
    ELSE Obj(a.k, a.shape, [i \in 1..Len(a.data) |-> NExp(a.data[i])])

\* math.log of a Python number: raises on a non-positive argument
math_log(a) ==
    IF IsExc(a) THEN a
    ELSE IF a.k # "Number" THEN Raise("TypeError")
    ELSE IF a.data[1].t = "q" /\ a.data[1].n <= 0 THEN Raise("ValueError")
    ELSE Number(NLog(a.data[1]))


(***************************************************************************)
(* basic_math.py: the operation classes.  An instance is                   *)
(* [cls, value, y]: value is the constant given to __init__ (None for the  *)
(* classes without one), y the attribute self.y (reading it before it was  *)
(* assigned raises AttributeError).  A method takes the instance and the   *)
(* tuples it is called with and yields the instance afterwards and the     *)
(* returned tuple; a raised exception is the 1-tuple holding it.           *)
(***************************************************************************)
Unset == Raise("AttributeError")

\* gx = cuda.empty_like(x), then filled by an elementwise kernel computing v
KernelOut(x, v) == IF IsExc(v) THEN v ELSE Obj("ndarray", x.shape, v.data)

Instance(cls, value) == [cls |-> cls, value |-> value, y |-> Unset]

Tuple1(a) == <<a>>

Tuple2(a, b) == IF IsExc(a) THEN <<a>> ELSE IF IsExc(b) THEN <<b>> ELSE <<a, b>>

Raised(ret) == IsExc(ret[1])

Result(self, ret) == [self |-> self, ret |-> ret]

\* self.y = v: no assignment when evaluating v raised
SetY(self, v) == IF IsExc(v) THEN self ELSE [self EXCEPT !.y = v]

Neg_forward(self, x) == Result(self, Tuple1(UNeg(x[1])))

Neg_backward(self, x, gy) == Result(self, Tuple1(UNeg(gy[1])))

Add_forward(self, x) == Result(self, Tuple1(BinOp("add", x[1], x[2])))

Add_backward(self, x, gy) == Result(self, Tuple2(gy[1], gy[1]))

AddConstant_forward(self, x) == Result(self, Tuple1(BinOp("add", x[1], self.value)))

AddConstant_backward(self, x, gy) == Result(self, Tuple1(gy[1]))

Sub_forward(self, x) == Result(self, Tuple1(BinOp("sub", x[1], x[2])))

Sub_backward(self, x, gy) == Result(self, Tuple2(gy[1], UNeg(gy[1])))

SubFromConstant_forward(self, x) == Result(self, Tuple1(BinOp("sub", self.value, x[1])))

SubFromConstant_backward(self, x, gy) == Result(self, Tuple1(UNeg(gy[1])))

Mul_forward(self, x) == Result(self, Tuple1(BinOp("mul", x[1], x[2])))

Mul_backward_cpu(self, x, gy) ==
    Result(self, Tuple2(BinOp("mul", gy[1], x[2]), BinOp("mul", gy[1], x[1])))

\* kernel mul_bwd: gx0[i] = gy[i] * x1[i]; gx1[i] = gy[i] * x0[i]
Mul_backward_gpu(self, x, gy) ==
    LET gx0 == KernelOut(x[1], BinOp("mul", gy[1], x[2]))
        gx1 == KernelOut(x[2], BinOp("mul", gy[1], x[1]))
    IN  Result(self, Tuple2(gx0, gx1))

MulConstant_forward(self, x) == Result(self, Tuple1(BinOp("mul", self.value, x[1])))

MulConstant_backward(self, x, gy) == Result(self, Tuple1(BinOp("mul", self.value, gy[1])))

Div_forward(self, x) == Result(self, Tuple1(BinOp("div", x[1], x[2])))

Div_backward_cpu(self, x, gy) ==
    LET gx0 == BinOp("div", gy[1], x[2])
    IN  Result(self, Tuple2(gx0, BinOp("div", BinOp("mul", UNeg(gx0), x[1]), x[2])))

\* kernel div_bwd: gx0[i] = gy[i] / x1[i]; gx1[i] = -gx0[i] * x0[i] / x1[i]
Div_backward_gpu(self, x, gy) ==
    LET gx0 == KernelOut(x[1], BinOp("div", gy[1], x[2]))
        gx1 == KernelOut(x[2], BinOp("div", BinOp("mul", UNeg(gx0), x[1]), x[2]))
    IN  Result(self, Tuple2(gx0, gx1))

DivFromConstant_forward(self, x) == Result(self, Tuple1(BinOp("div", self.value, x[1])))

DivFromConstant_backward_cpu(self, x, gy) ==
    Result(self, Tuple1(BinOp("div", BinOp("mul", UNeg(self.value), gy[1]),
                              BinOp("pow", x[1], Number(I(2))))))

\* kernel div_from_const_bwd, with value a float or a float*:
\*   gx[i] = -value * gy[i] / (x[i] * x[i])
\*   gx[i] = -value[i] * gy[i] / (x[i] * x[i])
DivFromConstant_backward_gpu(self, x, gy) ==
    LET gx == IF self.value.k = "Number"
              THEN BinOp("div", BinOp("mul", UNeg(self.value), gy[1]),
                         BinOp("mul", x[1], x[1]))
              ELSE BinOp("div", BinOp("mul", UNeg(self.value), gy[1]),
                         BinOp("mul", x[1], x[1]))
    IN  Result(self, Tuple1(KernelOut(x[1], gx)))

\* variant: returns the power without keeping it
PowVarVar_forward_cpu_no_cache(self, x) == Result(self, Tuple1(BinOp("pow", x[1], x[2])))

PowVarVar_forward_cpu(self, x) ==
    LET y == BinOp("pow", x[1], x[2])
    IN  Result(SetY(self, y), Tuple1(y))

PowVarVar_forward_gpu(self, x) == Result(self, Tuple1(BinOp("pow", x[1], x[2])))

PowVarVar_backward_cpu(self, x, gy) ==
    LET gx0 == BinOp("mul", BinOp("mul", x[2],
                   BinOp("pow", x[1], BinOp("sub", x[2], Number(I(1))))), gy[1])
        gx1 == BinOp("mul", BinOp("mul", numpy_log(x[1]), self.y), gy[1])
    IN  Result(self, Tuple2(gx0, gx1))

\* kernel pow_var_var_bwd:
\*   gx0[i] = x1[i] * __powf(x0[i], x1[i] - 1) * gy[i]
\*   gx1[i] = __logf(x0[i]) * __powf(x0[i], x1[i]) * gy[i]
PowVarVar_backward_gpu(self, x, gy) ==
    LET gx0 == BinOp("mul", BinOp("mul", x[2],
                   BinOp("pow", x[1], BinOp("sub", x[2], Number(I(1))))), gy[1])
        gx1 == BinOp("mul", BinOp("mul", numpy_log(x[1]), BinOp("pow", x[1], x[2])), gy[1])
    IN  Result(self, Tuple2(KernelOut(x[1], gx0),
                            KernelOut(x[2], gx1)))

PowVarConst_forward(self, x) == Result(self, Tuple1(BinOp("pow", x[1], self.value)))

PowVarConst_backward_cpu(self, x, gy) ==
    Result(self, Tuple1(BinOp("mul", BinOp("mul", self.value,
        BinOp("pow", x[1], BinOp("sub", self.value, Number(I(1))))), gy[1])))

\* kernel pow_var_const_bwd, with value a float or a float*:
\*   gx[i] = value * __powf(x[i], value - 1) * gy[i]
\*   gx[i] = value[i] * __powf(x[i], value[i] - 1) * gy[i]
PowVarConst_backward_gpu(self, x, gy) ==
    LET gx == IF self.value.k = "Number"
              THEN BinOp("mul", BinOp("mul", self.value,
                       BinOp("pow", x[1], BinOp("sub", self.value, Number(I(1))))), gy[1])
              ELSE BinOp("mul", BinOp("mul", self.value,
                       BinOp("pow", x[1], BinOp("sub", self.value, Number(I(1))))), gy[1])
    IN  Result(self, Tuple1(KernelOut(x[1], gx)))

PowConstVar_forward_cpu(self, x) ==
    LET y == BinOp("pow", self.value, x[1])
    IN  Result(SetY(self, y), Tuple1(y))

\* kernel pow_const_var_fwd: y[i] = __powf(value, x[i]) or __powf(value[i], x[i])
PowConstVar_forward_gpu(self, x) ==
    LET y == IF self.value.k = "Number"
             THEN BinOp("pow", self.value, x[1])
             ELSE BinOp("pow", self.value, x[1])
    IN  Result(self, Tuple1(KernelOut(x[1], y)))

PowConstVar_backward_cpu(self, x, gy) ==
    Result(self, Tuple1(BinOp("mul", BinOp("mul", numpy_log(self.value), self.y), gy[1])))

\* kernel pow_const_var_bwd:
\*   logv = math.log(value); gx[i] = logv * __powf(value, x[i]) * gy[i]
\*   gx[i] = __logf(value[i]) * __powf(value[i], x[i]) * gy[i]
PowConstVar_backward_gpu(self, x, gy) ==
    IF self.value.k = "Number"
    THEN LET logv == math_log(self.value)
             gx == BinOp("mul", BinOp("mul", logv, BinOp("pow", self.value, x[1])), gy[1])
         IN  Result(self, Tuple1(KernelOut(x[1], gx)))
    ELSE LET gx == BinOp("mul", BinOp("mul", numpy_log(self.value),
                                      BinOp("pow", self.value, x[1])), gy[1])
         IN  Result(self, Tuple1(KernelOut(x[1], gx)))

Exp_forward_cpu(self, x) ==
    LET y == numpy_exp(x[1])
    IN  Result(SetY(self, y), Tuple1(y))

Exp_forward_gpu(self, x) ==
    LET y == numpy_exp(x[1])
    IN  Result(SetY(self, y), Tuple1(y))

Exp_backward(self, x, gy) == Result(self, Tuple1(BinOp("mul", self.y, gy[1])))

Log_forward_cpu(self, x) == Result(self, Tuple1(numpy_log(x[1])))

Log_forward_gpu(self, x) == Result(self, Tuple1(numpy_log(x[1])))

Log_backward(self, x, gy) == Result(self, Tuple1(BinOp("div", gy[1], x[1])))

(***************************************************************************)
(* function.Function: a class defines forward/backward once, used on every *)
(* backend, or the pair _cpu/_gpu, selected by the type of the input       *)
(* arrays.                                                                 *)
(***************************************************************************)
Function_forward(self, backend, x) ==
    CASE self.cls = "Neg" -> Neg_forward(self, x)
      [] self.cls = "Add" -> Add_forward(self, x)
      [] self.cls = "AddConstant" -> AddConstant_forward(self, x)
      [] self.cls = "Sub" -> Sub_forward(self, x)
      [] self.cls = "SubFromConstant" -> SubFromConstant_forward(self, x)
      [] self.cls = "Mul" -> Mul_forward(self, x)
      [] self.cls = "MulConstant" -> MulConstant_forward(self, x)
      [] self.cls = "Div" -> Div_forward(self, x)
      [] self.cls = "DivFromConstant" -> DivFromConstant_forward(self, x)
      [] self.cls = "PowVarConst" -> PowVarConst_forward(self, x)
      [] self.cls = "PowVarVar" ->
            IF backend = "cpu" THEN PowVarVar_forward_cpu(self, x)
            ELSE PowVarVar_forward_gpu(self, x)
      [] self.cls = "PowConstVar" ->
            IF backend = "cpu" THEN PowConstVar_forward_cpu(self, x)
            ELSE PowConstVar_forward_gpu(self, x)
      [] self.cls = "Exp" ->
            IF backend = "cpu" THEN Exp_forward_cpu(self, x) ELSE Exp_forward_gpu(self, x)
      [] self.cls = "Log" ->
            IF backend = "cpu" THEN Log_forward_cpu(self, x) ELSE Log_forward_gpu(self, x)

Function_backward(self, backend, x, gy) ==
    CASE self.cls = "Neg" -> Neg_backward(self, x, gy)
      [] self.cls = "Add" -> Add_backward(self, x, gy)
      [] self.cls = "AddConstant" -> AddConstant_backward(self, x, gy)
      [] self.cls = "Sub" -> Sub_backward(self, x, gy)
      [] self.cls = "SubFromConstant" -> SubFromConstant_backward(self, x, gy)
      [] self.cls = "MulConstant" -> MulConstant_backward(self, x, gy)
      [] self.cls = "Exp" -> Exp_backward(self, x, gy)
      [] self.cls = "Log" -> Log_backward(self, x, gy)
      [] self.cls = "Mul" ->
            IF backend = "cpu" THEN Mul_backward_cpu(self, x, gy)
            ELSE Mul_backward_gpu(self, x, gy)
      [] self.cls = "Div" ->
            IF backend = "cpu" THEN Div_backward_cpu(self, x, gy)
            ELSE Div_backward_gpu(self, x, gy)
      [] self.cls = "DivFromConstant" ->
            IF backend = "cpu" THEN DivFromConstant_backward_cpu(self, x, gy)
            ELSE DivFromConstant_backward_gpu(self, x, gy)
      [] self.cls = "PowVarVar" ->
            IF backend = "cpu" THEN PowVarVar_backward_cpu(self, x, gy)
            ELSE PowVarVar_backward_gpu(self, x, gy)
      [] self.cls = "PowVarConst" ->
            IF backend = "cpu" THEN PowVarConst_backward_cpu(self, x, gy)
            ELSE PowVarConst_backward_gpu(self, x, gy)
      [] self.cls = "PowConstVar" ->
            IF backend = "cpu" THEN PowConstVar_backward_cpu(self, x, gy)
            ELSE PowConstVar_backward_gpu(self, x, gy)

MaxInstances == 3

MaxCalls == 2

UnaryClasses == {"Neg", "Exp", "Log"}

BinaryClasses == {"Add", "Sub", "Mul", "Div", "PowVarVar"}

ConstantClasses ==
    {"AddConstant", "SubFromConstant", "MulConstant", "DivFromConstant",
     "PowVarConst", "PowConstVar"}

Arity(cls) == IF cls \in BinaryClasses THEN 2 ELSE 1

Backends == {"cpu", "gpu"}

(***************************************************************************)
(* Input sets: elements, array lengths, arrays, constants.                 *)
(***************************************************************************)
Elems == {I(-1), I(0), I(2)}

Lens == {1, 2}

\* elements of the longer arrays (zero occurs in the 1-element arrays)
NonZero == {I(-1), I(2)}

Arrays ==
    UNION {{Array(d) : d \in [1..n -> IF n = 1 THEN Elems ELSE NonZero]} : n \in Lens}

\* upstream gradients
Grads == UNION {{Array(d) : d \in [1..n -> NonZero]} : n \in Lens}

Numbers == {Number(e) : e \in Elems}

Constants == Numbers \cup Arrays

Instances ==
    {Instance(c, None) : c \in UnaryClasses \cup BinaryClasses}
        \cup {Instance(c, v) : c \in ConstantClasses, v \in Constants}

Inputs(cls) ==
    IF Arity(cls) = 2 THEN {<<a, b>> : a \in Arrays, b \in Arrays}
    ELSE {<<a>> : a \in Arrays}

\* A GPU elementwise kernel indexes every array operand by the same flat
\* index; it is launched here on operands of one size only.
SameSize(self, x) ==
    /\ \A i \in 1..Len(x) : x[i].shape = x[1].shape
    /\ self.value.k = "ndarray" => self.value.shape = x[1].shape

VARIABLES
    inst,    \* SpecMath: the operation instance [cls, value, y]
    last,    \* SpecMath: the last call (op), the backend, inputs and output
             \*   of the most recent forward, the gy of a backward after it
    ret,     \* SpecMath: the tuple the last call returned
    slots,   \* SpecDispatch: Variable's operator slots
    nobj,    \* SpecDispatch: number of operation instances constructed
    call,    \* SpecDispatch: the last dispatch
    prevId,  \* SpecDispatch: the instance the dispatch before it applied
    lin,     \* SpecLinear: the Linear instance [W, b, gW, gb]
    hist,    \* SpecLinear: the last two calls
    ncalls   \* SpecLinear: number of calls made

vars == <<inst, last, ret, slots, nobj, call, prevId, lin, hist, ncalls>>

mathVars == <<inst, last, ret>>

dispatchVars == <<slots, nobj, call, prevId>>

linearVars == <<lin, hist, ncalls>>

NoCall == [op |-> "none", b |-> "cpu", x |-> <<>>, out |-> Unset, gy |-> Unset]

\* f(x) on arrays of one backend: Function.forward chooses the implementation
Forward(backend, x) ==
    /\ x \in Inputs(inst.cls)
    /\ backend = "gpu" => SameSize(inst, x)
    /\ LET r == Function_forward(inst, backend, x)
       IN  /\ inst' = r.self
           /\ ret' = r.ret
           /\ last' = [op |-> "forward", b |-> backend, x |-> x, out |-> r.ret[1],
                       gy |-> Unset]
    /\ UNCHANGED <<dispatchVars, linearVars>>

\* backpropagation through the node of the most recent forward: the same
\* input arrays and a gy of the output's shape
Backward(gy) ==
    /\ last.op # "none"
    /\ ~IsExc(last.out)
    /\ gy \in Grads
    /\ gy.shape = last.out.shape
    /\ LET r == Function_backward(inst, last.b, last.x, <<gy>>)
       IN  /\ inst' = r.self
           /\ ret' = r.ret
           /\ last' = [last EXCEPT !.op = "backward", !.gy = gy]
    /\ UNCHANGED <<dispatchVars, linearVars>>

(***************************************************************************)
(* basic_math.py: the dispatch functions.  Cls(args)(inputs) constructs an *)
(* instance and applies it; the outcome of a dispatch is whether an        *)
(* instance was constructed, the instance, the graph inputs it was applied *)
(* to and the forward output (or the exception raised).                    *)
(***************************************************************************)
NoInstance == Instance("", None)

Outcome(constructed, i, args, r) ==
    [constructed |-> constructed, inst |-> i, args |-> args, ret |-> r]

\* Function.__call__: forward on the arrays the Variables wrap
Apply(i, args) ==
    CHOOSE o \in {Outcome(TRUE, r.self, args, r.ret) :
                    r \in {Function_forward(self, "cpu", x) :
                             self \in {i},
                             x \in {[k \in 1..Len(args) |-> DataOf(args[k])]}}} : TRUE

\* Cls(value)(lhs) where evaluating the argument value may have raised
ApplyConstant(cls, value, lhs) ==
    IF IsExc(value) THEN Outcome(FALSE, NoInstance, <<>>, <<value>>)
    ELSE Apply(Instance(cls, value), <<lhs>>)

IsVariable(o) == o.k = "Variable"

neg(x) == Apply(Instance("Neg", None), <<x>>)

\* variant: rejects an operand that is no Variable, number or array
add_type_checked(lhs, rhs) ==
    IF IsVariable(rhs) THEN Apply(Instance("Add", None), <<lhs, rhs>>)
    ELSE IF ~IsNum(rhs) THEN Outcome(FALSE, NoInstance, <<>>, <<Raise("TypeError")>>)
    ELSE ApplyConstant("AddConstant", rhs, lhs)

add(lhs, rhs) ==
    IF IsVariable(rhs) THEN Apply(Instance("Add", None), <<lhs, rhs>>)
    ELSE ApplyConstant("AddConstant", rhs, lhs)

sub(lhs, rhs) ==
    IF IsVariable(rhs) THEN Apply(Instance("Sub", None), <<lhs, rhs>>)
    ELSE ApplyConstant("AddConstant", UNeg(rhs), lhs)

\* variant: subtracts in the order of its arguments
rsub_unswapped(lhs, rhs) ==
    IF IsVariable(rhs) THEN Apply(Instance("Sub", None), <<lhs, rhs>>)
    ELSE ApplyConstant("AddConstant", UNeg(rhs), lhs)

rsub(lhs, rhs) ==
    IF IsVariable(rhs) THEN Apply(Instance("Sub", None), <<rhs, lhs>>)
    ELSE ApplyConstant("SubFromConstant", rhs, lhs)

mul(lhs, rhs) ==
    IF IsVariable(rhs) THEN Apply(Instance("Mul", None), <<lhs, rhs>>)
    ELSE ApplyConstant("MulConstant", rhs, lhs)

div(lhs, rhs) ==
    IF IsVariable(rhs) THEN Apply(Instance("Div", None), <<lhs, rhs>>)
    ELSE ApplyConstant("MulConstant", BinOp("div", Number(I(1)), rhs), lhs)

rdiv(lhs, rhs) ==
    IF IsVariable(rhs) THEN Apply(Instance("Div", None), <<rhs, lhs>>)
    ELSE ApplyConstant("DivFromConstant", rhs, lhs)

pow(lhs, rhs) ==
    IF IsVariable(rhs) THEN Apply(Instance("PowVarVar", None), <<lhs, rhs>>)
    ELSE ApplyConstant("PowVarConst", rhs, lhs)

rpow(lhs, rhs) ==
    IF IsVariable(rhs) THEN Apply(Instance("PowVarVar", None), <<rhs, lhs>>)
    ELSE ApplyConstant("PowConstVar", rhs, lhs)

DispatchFunctions == {"add", "sub", "rsub", "mul", "div", "rdiv", "pow", "rpow"}

Functions == DispatchFunctions \cup {"neg"}

CallFn(fn, lhs, rhs) ==
    CASE fn = "neg" -> neg(lhs)
      [] fn = "add" -> add(lhs, rhs)
      [] fn = "sub" -> sub(lhs, rhs)
      [] fn = "rsub" -> rsub(lhs, rhs)
      [] fn = "mul" -> mul(lhs, rhs)
      [] fn = "div" -> div(lhs, rhs)
      [] fn = "rdiv" -> rdiv(lhs, rhs)
      [] fn = "pow" -> pow(lhs, rhs)
      [] fn = "rpow" -> rpow(lhs, rhs)

Slots ==
    {"__neg__", "__add__", "__radd__", "__sub__", "__rsub__", "__mul__", "__rmul__",
     "__div__", "__truediv__", "__rdiv__", "__rtruediv__", "__pow__", "__rpow__"}

install_variable_arithmetics ==
    [s \in Slots |->
        CASE s = "__neg__" -> "neg"
          [] s = "__add__" -> "add"
          [] s = "__radd__" -> "add"
          [] s = "__sub__" -> "sub"
          [] s = "__rsub__" -> "rsub"
          [] s = "__mul__" -> "mul"
          [] s = "__rmul__" -> "mul"
          [] s = "__div__" -> "div"
          [] s = "__truediv__" -> "div"
          [] s = "__rdiv__" -> "rdiv"
          [] s = "__rtruediv__" -> "rdiv"
          [] s = "__pow__" -> "pow"
          [] s = "__rpow__" -> "rpow"]

(***************************************************************************)
(* Operands of a dispatch: the first is a Variable, the second a Variable, *)
(* a Python number, an array, or an object that is none of these.          *)
(***************************************************************************)
Scalars == {Array(<<e>>) : e \in Elems}

GraphValues == {Variable(a) : a \in Scalars}

Others == {Str, None}

Operands == GraphValues \cup Numbers \cup Scalars \cup Others

NoDispatch ==
    [via |-> "", fn |-> "", lhs |-> None, rhs |-> None, id |-> 0,
     out |-> Outcome(FALSE, NoInstance, <<>>, <<>>)]

\* a call of fn(lhs, rhs); every constructed instance is a new object,
\* identified by its allocation number
Dispatch(via, fn, lhs, rhs) ==
    /\ nobj < MaxInstances
    /\ \E o \in {CallFn(fn, lhs, rhs)} :
           /\ nobj' = IF o.constructed THEN nobj + 1 ELSE nobj
           /\ call' = [via |-> via, fn |-> fn, lhs |-> lhs, rhs |-> rhs,
                       id |-> IF o.constructed THEN nobj + 1 ELSE 0, out |-> o]
           /\ prevId' = call.id
    /\ UNCHANGED <<slots, mathVars, linearVars>>

\* a direct call of a module-level function
CallFunction(fn, lhs, rhs) ==
    /\ fn \in Functions
    /\ lhs \in GraphValues
    /\ rhs \in (IF fn = "neg" THEN {None} ELSE Operands)
    /\ Dispatch("direct", fn, lhs, rhs)

\* an arithmetic expression on a Variable: Python calls the bound slot with
\* the Variable first and the other operand second
Operator(slot, self, other) ==
    /\ slot \in Slots
    /\ slots[slot] # "unbound"
    /\ self \in GraphValues
    /\ other \in (IF slot = "__neg__" THEN {None} ELSE Operands)
    /\ Dispatch(slot, slots[slot], self, other)

Install ==
    /\ slots' = install_variable_arithmetics
    /\ UNCHANGED <<nobj, call, prevId, mathVars, linearVars>>

(***************************************************************************)
(* linear.py.  Arrays are n-dimensional here, stored flat in C order with  *)
(* integer elements; a matrix element (i, j) of a is a.data[(i-1)*cols+j]. *)
(***************************************************************************)
RECURSIVE Size(_)
Size(shape) == IF shape = <<>> THEN 1 ELSE Head(shape) * Size(Tail(shape))

RECURSIVE Sum(_, _)
Sum(f, n) == IF n = 0 THEN 0 ELSE f[n] + Sum(f, n - 1)

\* numpy.ndarray.reshape: the same elements in the same order
reshape(a, shape) ==
    IF Size(shape) # Size(a.shape) THEN Raise("ValueError")
    ELSE Obj("ndarray", shape, a.data)

Rows(a) == a.shape[1]

Cols(a) == a.shape[2]

El(a, i, j) == a.data[(i - 1) * Cols(a) + j]

Matrix(r, c, f(_, _)) ==
    Obj("ndarray", <<r, c>>, [p \in 1..(r * c) |-> f(((p - 1) \div c) + 1, ((p - 1) % c) + 1)])

\* a.T
T(a) == LET f(i, j) == El(a, j, i) IN Matrix(Cols(a), Rows(a), f)

\* a.dot(b)
dot(a, b) ==
    IF Cols(a) # Rows(b) THEN Raise("ValueError")
    ELSE LET f(i, j) == Sum([k \in 1..Cols(a) |-> El(a, i, k) * El(b, k, j)], Cols(a))
         IN  Matrix(Rows(a), Cols(b), f)

\* culinalg.dot(a, b, transa, transb)
culinalg_dot(a, b, transa, transb) ==
    dot(IF transa = "T" THEN T(a) ELSE a, IF transb = "T" THEN T(b) ELSE b)

\* elementwise a + b of two arrays of one shape
MatAdd(a, b) ==
    IF IsExc(a) THEN a ELSE IF IsExc(b) THEN b
    ELSE IF a.shape # b.shape THEN Raise("ValueError")
    ELSE Obj("ndarray", a.shape, [p \in 1..Len(a.data) |-> a.data[p] + b.data[p]])

\* culinalg.add_dot(a, b, out, transa): out += op(a).dot(b)
culinalg_add_dot(a, b, out, transa) == MatAdd(out, culinalg_dot(a, b, transa, "N"))

\* a += b with the vector b broadcast over the rows of a
AddRows(a, b) ==
    IF IsExc(a) THEN a
    ELSE IF Cols(a) # Len(b.data) THEN Raise("ValueError")
    ELSE LET f(i, j) == El(a, i, j) + b.data[j] IN Matrix(Rows(a), Cols(a), f)

\* kernel linear_bias: y[i] += b[i % n_channel], i the flat 0-based index
linear_bias(y, b, n_channel) ==
    IF IsExc(y) THEN y
    ELSE Obj("ndarray", y.shape,
             [p \in 1..Len(y.data) |-> y.data[p] + b.data[((p - 1) % n_channel) + 1]])

\* a.sum(0) / cumisc.sum(a, 0)
sum0(a) ==
    Obj("ndarray", <<Cols(a)>>,
        [j \in 1..Cols(a) |-> Sum([i \in 1..Rows(a) |-> El(a, i, j)], Rows(a))])

\* variant: folds the leading dimensions into the rows
as_mat_leading(x) ==
    reshape(x, <<Size(x.shape) \div x.shape[Len(x.shape)], x.shape[Len(x.shape)]>>)

_as_mat(x) == reshape(x, <<x.shape[1], Size(x.shape) \div x.shape[1]>>)

\* variant: allocates gb whether or not there is a bias
Linear__init__gb_always(in_size, out_size, bias, nobias, W0, gW0, gb0) ==
    [W |-> Obj("ndarray", <<out_size, in_size>>, W0),
     gW |-> Obj("ndarray", <<out_size, in_size>>, gW0),
     b |-> IF nobias THEN None ELSE Obj("ndarray", <<out_size>>, [j \in 1..out_size |-> bias]),
     gb |-> Obj("ndarray", <<out_size>>, gb0)]

\* W0: the draws of numpy.random.normal; gW0, gb0: what numpy.empty_like
\* finds in the memory it allocates
Linear__init__(in_size, out_size, bias, nobias, W0, gW0, gb0) ==
    [W |-> Obj("ndarray", <<out_size, in_size>>, W0),
     gW |-> Obj("ndarray", <<out_size, in_size>>, gW0),
     b |-> IF nobias THEN None ELSE Obj("ndarray", <<out_size>>, [j \in 1..out_size |-> bias]),
     gb |-> IF nobias THEN None ELSE Obj("ndarray", <<out_size>>, gb0)]

parameter_names(self) == IF self.b = None THEN <<"W">> ELSE <<"W", "b">>

gradient_names(self) == IF self.gb = None THEN <<"gW">> ELSE <<"gW", "gb">>

\* the outcome of a method: the instance, the caller's arrays x and gy as
\* the call leaves them, and the returned tuple
LResult(self, x, gy, r) == [self |-> self, x |-> x, gy |-> gy, ret |-> <<r>>]

\* variant: forward clears the gradient accumulator
Linear_forward_cpu_zero_grad(self, x) ==
    LET xm == _as_mat(x[1])
        Wx == dot(xm, T(self.W))
    IN  LResult([self EXCEPT !.gW = Obj("ndarray", @.shape, [p \in 1..Len(@.data) |-> 0])],
                x, <<>>, IF self.b # None THEN AddRows(Wx, self.b) ELSE Wx)

Linear_forward_cpu(self, x) ==
    LET xm == _as_mat(x[1])
        Wx == dot(xm, T(self.W))
    IN  LResult(self, x, <<>>, IF self.b # None THEN AddRows(Wx, self.b) ELSE Wx)

Linear_forward_gpu(self, x) ==
    LET xm == _as_mat(x[1])
        y == culinalg_dot(xm, self.W, "N", "T")
    IN  LResult(self, x, <<>>,
                IF self.b # None THEN linear_bias(y, self.b, Len(self.b.data)) ELSE y)

\* variant: assigns the gradients instead of adding to them
Linear_backward_cpu_assign(self, x, gy) ==
    LET xm == _as_mat(x[1])
        s1 == [self EXCEPT !.gW = dot(T(gy[1]), xm)]
        s2 == IF s1.gb # None THEN [s1 EXCEPT !.gb = sum0(gy[1])] ELSE s1
    IN  LResult(s2, x, gy, reshape(dot(gy[1], self.W), x[1].shape))

Linear_backward_cpu(self, x, gy) ==
    LET xm == _as_mat(x[1])
        s1 == [self EXCEPT !.gW = MatAdd(@, dot(T(gy[1]), xm))]
        s2 == IF s1.gb # None THEN [s1 EXCEPT !.gb = MatAdd(@, sum0(gy[1]))] ELSE s1
    IN  LResult(s2, x, gy, reshape(dot(gy[1], self.W), x[1].shape))

Linear_backward_gpu(self, x, gy) ==
    LET xm == _as_mat(x[1])
        s1 == [self EXCEPT !.gW = culinalg_add_dot(gy[1], xm, @, "T")]
        s2 == IF s1.gb # None THEN [s1 EXCEPT !.gb = MatAdd(@, sum0(gy[1]))] ELSE s1
        gx == culinalg_dot(gy[1], self.W, "N", "N")
    IN  LResult(s2, x, gy, reshape(gx, x[1].shape))

(***************************************************************************)
(* Linear: constructions and calls.                                        *)
(***************************************************************************)
InSizes == {2}

OutSizes == {1, 2}

Biases == {0, 1}

Iota(n) == [i \in 1..n |-> i]

Fill(n, v) == [i \in 1..n |-> v]

\* weights drawn at construction
WDraws(n) == {Iota(n), [i \in 1..n |-> 2 - i]}

\* contents of freshly allocated memory
Garbage(n) == {Fill(n, 0), [i \in 1..n |-> 3 * i]}

\* input batches: 2-d (batch, 2) and 3-d with the two features split
LinearInputs ==
    {Obj("ndarray", <<1, 2>>, <<1, 2>>),
     Obj("ndarray", <<1, 2, 1>>, <<2, -1>>),
     Obj("ndarray", <<2, 2>>, <<1, 0, -1, 2>>),
     Obj("ndarray", <<2, 1, 2>>, <<-1, 2, 0, 1>>)}

\* upstream gradients of shape (batch, out_size)
LinearGrads(batch, out_size) ==
    {Obj("ndarray", <<batch, out_size>>, d) :
        d \in {Fill(batch * out_size, 1), [i \in 1..(batch * out_size) |-> 2 * i - 3]}}

LinearCall(op, backend, x, gy, pre, r) ==
    [op |-> op, backend |-> backend, xin |-> x, gyin |-> gy, pre |-> pre,
     x |-> r.x, gy |-> r.gy, ret |-> r.ret]

Record(h, c) == IF Len(h) < 2 THEN Append(h, c) ELSE <<h[2], c>>

LinearForward(backend, x) ==
    /\ ncalls < MaxCalls
    /\ x \in LinearInputs
    /\ LET r == IF backend = "cpu" THEN Linear_forward_cpu(lin, <<x>>)
                ELSE Linear_forward_gpu(lin, <<x>>)
       IN  /\ lin' = r.self
           /\ hist' = Record(hist, LinearCall("forward", backend, <<x>>, <<>>, lin, r))
    /\ ncalls' = ncalls + 1
    /\ UNCHANGED <<mathVars, dispatchVars>>

LinearBackward(backend, x, gy) ==
    /\ ncalls < MaxCalls
    /\ x \in LinearInputs
    /\ gy \in LinearGrads(x.shape[1], Rows(lin.W))
    /\ LET r == IF backend = "cpu" THEN Linear_backward_cpu(lin, <<x>>, <<gy>>)
                ELSE Linear_backward_gpu(lin, <<x>>, <<gy>>)
       IN  /\ lin' = r.self
           /\ hist' = Record(hist, LinearCall("backward", backend, <<x>>, <<gy>>, lin, r))
    /\ ncalls' = ncalls + 1
    /\ UNCHANGED <<mathVars, dispatchVars>>

(***************************************************************************)
(* Specifications.                                                         *)
(***************************************************************************)
NoLinear == [W |-> None, gW |-> None, b |-> None, gb |-> None]

MathIdle == inst = NoInstance /\ last = NoCall /\ ret = <<>>

DispatchIdle ==
    /\ slots = [s \in Slots |-> "unbound"]
    /\ nobj = 0
    /\ call = NoDispatch
    /\ prevId = 0

LinearIdle == lin = NoLinear /\ hist = <<>> /\ ncalls = 0

InitMath ==
    /\ inst \in Instances
    /\ last = NoCall
    /\ ret = <<>>
    /\ DispatchIdle
    /\ LinearIdle

NextMath ==
    \/ \E backend \in Backends, x \in Inputs(inst.cls) : Forward(backend, x)
    \/ \E gy \in Grads : Backward(gy)

SpecMath == InitMath /\ [][NextMath]_vars

InitDispatch == MathIdle /\ DispatchIdle /\ LinearIdle

NextDispatch ==
    \/ Install
    \/ \E fn \in Functions, lhs \in GraphValues, rhs \in Operands \cup {None} :
            CallFunction(fn, lhs, rhs)
    \/ \E slot \in Slots, self \in GraphValues, other \in Operands \cup {None} :
            Operator(slot, self, other)

SpecDispatch == InitDispatch /\ [][NextDispatch]_vars

InitLinear ==
    /\ MathIdle
    /\ DispatchIdle
    /\ hist = <<>>
    /\ ncalls = 0
    /\ \E in_size \in InSizes, out_size \in OutSizes, bias \in Biases, nobias \in BOOLEAN :
        \E W0 \in WDraws(out_size * in_size), gW0 \in Garbage(out_size * in_size),
           gb0 \in Garbage(out_size) :
            lin = Linear__init__(in_size, out_size, bias, nobias, W0, gW0, gb0)

NextLinear ==
    \/ \E backend \in Backends, x \in LinearInputs : LinearForward(backend, x)
    \/ \E backend \in Backends, x \in LinearInputs :
        \E gy \in LinearGrads(x.shape[1], Rows(lin.W)) : LinearBackward(backend, x, gy)

SpecLinear == InitLinear /\ [][NextLinear]_vars

Init == InitMath \/ InitDispatch \/ InitLinear

Next == NextMath \/ NextDispatch \/ NextLinear

Spec == Init /\ [][Next]_vars

(***************************************************************************)
(* Linear: properties.                                                     *)
(***************************************************************************)
LastCall == hist[Len(hist)]

\* the instance as the i-th recorded call left it
PostOf(i) == IF i < Len(hist) THEN hist[i + 1].pre ELSE lin

Batch(x) == x.shape[1]

Features(x) == Size(x.shape) \div x.shape[1]

\* element (i, k) of the batch x read as batch x features
XEl(x, i, k) == x.data[(i - 1) * Features(x) + k]

\* gY^T . X, the column sums of gY, gY . W, written out elementwise
GradW(gy, x) ==
    [p \in 1..(Cols(gy) * Features(x)) |->
        Sum([i \in 1..Batch(x) |->
                El(gy, i, ((p - 1) \div Features(x)) + 1)
                    * XEl(x, i, ((p - 1) % Features(x)) + 1)], Batch(x))]

GradB(gy) == [j \in 1..Cols(gy) |-> Sum([i \in 1..Rows(gy) |-> El(gy, i, j)], Rows(gy))]

GradX(gy, W) ==
    [p \in 1..(Rows(gy) * Cols(W)) |->
        Sum([j \in 1..Cols(gy) |->
                El(gy, ((p - 1) \div Cols(W)) + 1, j) * El(W, j, ((p - 1) % Cols(W)) + 1)],
            Cols(gy))]

TwoBackwards == Len(hist) = 2 /\ hist[1].op = "backward" /\ hist[2].op = "backward"

\* C1 as amended: two backward calls in succession leave gW equal to its
\* value before the first call plus gY1^T.X1 + gY2^T.X2, and gb (with a
\* bias) equal to its value before plus the two column sums; each call
\* returns gY.W in the shape of its x, whatever gW and gb hold.
C1_AccumulatesOntoPrior ==
    TwoBackwards =>
        LET c1 == hist[1]
            c2 == hist[2]
            before == c1.pre
        IN  /\ lin.gW.shape = before.gW.shape
            /\ lin.gW.data =
                 [p \in 1..Len(before.gW.data) |->
                    before.gW.data[p] + GradW(c1.gyin[1], c1.xin[1])[p]
                        + GradW(c2.gyin[1], c2.xin[1])[p]]
            /\ lin.b # None =>
                 lin.gb.data =
                    [j \in 1..Len(before.gb.data) |->
                        before.gb.data[j] + GradB(c1.gyin[1])[j] + GradB(c2.gyin[1])[j]]
            /\ \A c \in {c1, c2} :
                 c.ret[1] = Obj("ndarray", c.xin[1].shape, GradX(c.gyin[1], lin.W))

C1_Witness ==
    /\ TwoBackwards
    /\ lin.b # None
    /\ hist[1].pre.gW.data # Fill(Len(lin.gW.data), 0)
    /\ lin.gW # hist[2].pre.gW

\* C1 as stated: after two backward calls in succession gW equals the sum
\* of the two contributions and gb the sum of the two column sums.
C1_SumOfTwoContributions ==
    TwoBackwards =>
        /\ lin.gW.data =
             [p \in 1..Len(lin.gW.data) |->
                GradW(hist[1].gyin[1], hist[1].xin[1])[p]
                    + GradW(hist[2].gyin[1], hist[2].xin[1])[p]]
        /\ lin.b # None =>
             lin.gb.data =
                [j \in 1..Len(lin.gb.data) |->
                    GradB(hist[1].gyin[1])[j] + GradB(hist[2].gyin[1])[j]]

\* C2 as amended: in every state gb exists iff b exists, gW always exists
\* with the shape of W, and gradient_names lists gW alone without a bias.
C2_GbIffBias ==
    lin # NoLinear =>
        /\ lin.gb # None <=> lin.b # None
        /\ lin.gW # None /\ lin.gW.shape = lin.W.shape
        /\ lin.b # None => lin.gb.shape = lin.b.shape
        /\ gradient_names(lin) = IF lin.b = None THEN <<"gW">> ELSE <<"gW", "gb">>
        /\ Len(gradient_names(lin)) = Len(parameter_names(lin))

C2_Witness == hist # <<>> /\ LastCall.op = "backward" /\ lin.b = None /\ lin.gW # None

\* C2 as stated: gW and gb exist iff b exists; without a bias both are
\* omitted.
C2_GradientsIffBias ==
    lin # NoLinear =>
        /\ lin.b # None => lin.gW # None /\ lin.gb # None
        /\ lin.b = None => lin.gW = None /\ lin.gb = None

\* the (batch, d1, d2) input as the (batch, d1*d2) matrix with element
\* (i, (a-1)*d2 + b) equal to x[i, a, b]
Flat2d(x) ==
    LET d1 == x.shape[2]
        d2 == x.shape[3]
        f(i, k) == x.data[((i - 1) * d1 + ((k - 1) \div d2)) * d2 + ((k - 1) % d2) + 1]
    IN  Matrix(x.shape[1], d1 * d2, f)

LinearCallOn(c, x) ==
    IF c.op = "forward"
    THEN IF c.backend = "cpu" THEN Linear_forward_cpu(c.pre, <<x>>)
         ELSE Linear_forward_gpu(c.pre, <<x>>)
    ELSE IF c.backend = "cpu" THEN Linear_backward_cpu(c.pre, <<x>>, c.gyin)
         ELSE Linear_backward_gpu(c.pre, <<x>>, c.gyin)

\* C9: a call on a (batch, d1, d2) input returns what the call on the
\* (batch, d1*d2) input returns: forward the same (batch, out_size) output,
\* backward a gradient of shape (batch, d1, d2) with the same elements in
\* order, and the same gW and gb afterwards.
C9_ReshapeTransparent ==
    \A i \in 1..Len(hist) :
        LET c == hist[i]
            x == c.xin[1]
        IN  Len(x.shape) = 3 =>
                LET r == LinearCallOn(c, Flat2d(x))
                IN  /\ PostOf(i) = r.self
                    /\ c.op = "forward" =>
                         /\ c.ret = r.ret
                         /\ c.ret[1].shape = <<x.shape[1], Rows(lin.W)>>
                    /\ c.op = "backward" =>
                         /\ c.ret[1].shape = x.shape
                         /\ r.ret[1].shape = <<x.shape[1], x.shape[2] * x.shape[3]>>
                         /\ c.ret[1].data = r.ret[1].data

C9_Witness ==
    /\ Len(hist) = 2
    /\ hist[1].op = "forward" /\ Len(hist[1].xin[1].shape) = 3
    /\ hist[2].op = "backward" /\ hist[2].xin[1].shape = <<2, 1, 2>>
    /\ hist[2].ret[1].shape = <<2, 1, 2>>

\* C10: forward leaves W, b, gW and gb as they were, backward leaves W and
\* b as they were, and no call changes the x or the gY it was given.
C10_Frame ==
    \A i \in 1..Len(hist) :
        LET c == hist[i]
            post == PostOf(i)
        IN  /\ c.x = c.xin
            /\ c.gy = c.gyin
            /\ post.W = c.pre.W
            /\ post.b = c.pre.b
            /\ c.op = "forward" => post = c.pre

C10_Witness ==
    /\ Len(hist) = 2
    /\ hist[1].op = "forward" /\ hist[2].op = "backward"
    /\ lin.b # None
    /\ lin.gW # hist[2].pre.gW
    /\ lin.gb # hist[2].pre.gb

(***************************************************************************)
(* basic_math operations: properties.                                      *)
(***************************************************************************)
Caching == {"Exp", "PowVarVar", "PowConstVar"}

\* the forward implementations that assign self.y
StoresY(cls, backend) == cls = "Exp" \/ (cls \in {"PowVarVar", "PowConstVar"} /\ backend = "cpu")

Times3(a, b, c) == BinOp("mul", BinOp("mul", a, b), c)

C6_Step ==
    inst.cls \in Caching =>
        /\ last'.op = "forward" /\ StoresY(inst.cls, last'.b) => inst'.y = last'.out
        /\ last'.op = "forward" /\ ~StoresY(inst.cls, last'.b) => inst'.y = inst.y
        /\ last'.op = "backward" =>
             /\ inst'.y = inst.y
             /\ inst.cls = "Exp" => ret' = <<BinOp("mul", last.out, last'.gy)>>
             /\ inst.cls = "PowVarVar" /\ last.b = "cpu" =>
                  ret'[2] = Times3(numpy_log(last.x[1]), last.out, last'.gy)
             /\ inst.cls = "PowConstVar" /\ last.b = "cpu" =>
                  ret' = <<Times3(numpy_log(inst.value), last.out, last'.gy)>>

\* C6 as amended: a forward of Exp (either backend) and a forward_cpu of
\* PowVarVar or PowConstVar overwrites the cached y with its output;
\* forward_gpu of PowVarVar and PowConstVar leaves y as it was; backward
\* never changes y; and a backward after a forward on the same inputs
\* returns y*gy (Exp), ln(a)*y*gy for the second input (PowVarVar on the
\* CPU) and ln(c)*y*gy (PowConstVar on the CPU), y being that forward's
\* output.
C6_CacheOverwrittenByStoringForward == [][C6_Step]_vars

C6_Witness ==
    /\ inst.cls = "PowVarVar"
    /\ last.op = "backward" /\ last.b = "cpu"
    /\ inst.y = last.out
    /\ Len(ret) = 2 /\ ret[2].data[1].t = "ln"

\* C6 as stated: after any calls the cached y of Exp, PowVarVar and
\* PowConstVar equals the output of the most recent forward call.
C6_CacheIsLastForwardOutput ==
    inst.cls \in Caching /\ last.op # "none" => inst.y = last.out

\* C7: backward returns one gradient per forward input, each of the shape
\* of its input, also when the operands have different broadcastable
\* shapes.
C7_GradientPerInputOfItsShape ==
    last.op = "backward" /\ ~Raised(ret) =>
        /\ Len(ret) = Len(last.x)
        /\ \A i \in 1..Len(last.x) : ret[i].shape = last.x[i].shape

\* backward gradients have the shapes of the inputs when no operand is
\* broadcast
C7_ShapesWithoutBroadcast ==
    last.op = "backward" /\ ~Raised(ret) /\ SameSize(inst, last.x) =>
        /\ Len(ret) = Len(last.x)
        /\ \A i \in 1..Len(last.x) : ret[i].shape = last.x[i].shape

\* forward then backward on one backend, from the instance as it is
Pipeline(backend, x, gy) ==
    LET f == Function_forward(inst, backend, x)
    IN  <<f.ret, Function_backward(f.self, backend, x, <<gy>>).ret>>

LinearInstances ==
    {Linear__init__(in_size, out_size, bias, nobias, W0, gW0, gb0) :
        in_size \in InSizes, out_size \in OutSizes, bias \in Biases, nobias \in BOOLEAN,
        W0 \in UNION {WDraws(2 * m) : m \in OutSizes},
        gW0 \in UNION {Garbage(2 * m) : m \in OutSizes},
        gb0 \in UNION {Garbage(m) : m \in OutSizes}}

LinearParity ==
    \A self \in LinearInstances :
        Len(self.W.data) = 2 * Rows(self.W) /\ Len(self.gW.data) = Len(self.W.data)
            /\ (self.gb # None => Len(self.gb.data) = Rows(self.W)) =>
        \A x \in LinearInputs :
            /\ Linear_forward_cpu(self, <<x>>) = Linear_forward_gpu(self, <<x>>)
            /\ \A gy \in LinearGrads(x.shape[1], Rows(self.W)) :
                 Linear_backward_cpu(self, <<x>>, <<gy>>)
                    = Linear_backward_gpu(self, <<x>>, <<gy>>)

\* C8: for the same inputs and instance state the CPU and the GPU
\* implementations return the same forward output and, called with the
\* inputs of that forward, the same gradients, for scalar and per-element
\* array constants; Linear's two backends return the same and update gW and
\* gb alike.
C8_BackendParity ==
    /\ last.op # "none" /\ SameSize(inst, last.x) =>
         \A gy \in Grads :
            gy.shape = last.x[1].shape =>
                Pipeline("cpu", last.x, gy) = Pipeline("gpu", last.x, gy)
    /\ LinearParity

\* the two backends agree except where math.log raises for a scalar
\* constant c <= 0 of PowConstVar
C8_ParityExceptLogDomain ==
    /\ last.op # "none" /\ SameSize(inst, last.x)
         /\ ~(inst.cls = "PowConstVar" /\ inst.value.k = "Number"
                /\ inst.value.data[1].n <= 0) =>
         \A gy \in Grads :
            gy.shape = last.x[1].shape =>
                Pipeline("cpu", last.x, gy) = Pipeline("gpu", last.x, gy)
    /\ LinearParity

(***************************************************************************)
(* Dispatch functions and operator slots: properties.                      *)
(***************************************************************************)
LhsData == DataOf(call.lhs)

IsConstant(o) == o.k \in {"Number", "ndarray"}

\* the constant form a dispatch function constructs for a non-Variable
ConstantForm(fn) ==
    CASE fn = "add" -> "AddConstant"
      [] fn = "sub" -> "AddConstant"
      [] fn = "rsub" -> "SubFromConstant"
      [] fn = "mul" -> "MulConstant"
      [] fn = "div" -> "MulConstant"
      [] fn = "rdiv" -> "DivFromConstant"
      [] fn = "pow" -> "PowVarConst"
      [] fn = "rpow" -> "PowConstVar"

\* C3 as amended: no dispatch function checks the type of its second
\* operand.  For an operand that is no Variable, number or array (a str,
\* None), add, mul, rsub, rdiv, pow and rpow construct the constant form
\* holding that operand, and the TypeError is raised by the arithmetic of
\* its forward; sub and div raise it before constructing anything, from
\* evaluating -rhs and 1. / rhs.
C3_NoTypeCheckAtDispatch ==
    call.fn \in DispatchFunctions /\ call.rhs \in Others =>
        /\ call.out.ret = <<Raise("TypeError")>>
        /\ IF call.fn \in {"sub", "div"}
           THEN ~call.out.constructed /\ call.id = 0
           ELSE /\ call.out.constructed
                /\ call.id # 0
                /\ call.out.inst.cls = ConstantForm(call.fn)
                /\ call.out.inst.value = call.rhs

C3_Witness ==
    /\ call.fn = "rpow" /\ call.rhs = Str
    /\ call.out.constructed /\ call.out.inst.cls = "PowConstVar"
    /\ Raised(call.out.ret)

\* C3 as stated: for a second operand that is neither a Variable nor a
\* number or array, every dispatch function raises before any operation
\* instance is constructed.
C3_TypeMismatchBeforeConstruction ==
    call.fn \in DispatchFunctions /\ call.rhs \in Others =>
        ~call.out.constructed /\ Raised(call.out.ret)

\* gradients of v - x, v / x and v ** x with respect to (v, x)
ReversedGradients(fn, v, x, gy) ==
    CASE fn = "rsub" -> <<gy, UNeg(gy)>>
      [] fn = "rdiv" ->
            <<BinOp("div", gy, x),
              BinOp("div", BinOp("mul", UNeg(BinOp("div", gy, x)), v), x)>>
      [] fn = "rpow" ->
            <<Times3(x, BinOp("pow", v, BinOp("sub", x, Number(I(1)))), gy),
              Times3(numpy_log(v), BinOp("pow", v, x), gy)>>

ReversedOp(fn) ==
    CASE fn = "rsub" -> "sub" [] fn = "rdiv" -> "div" [] fn = "rpow" -> "pow"

TensorForm(fn) ==
    CASE fn \in {"add"} -> "Add"
      [] fn \in {"sub", "rsub"} -> "Sub"
      [] fn \in {"mul"} -> "Mul"
      [] fn \in {"div", "rdiv"} -> "Div"
      [] fn \in {"pow", "rpow"} -> "PowVarVar"

\* C4: rsub(x, c), rdiv(x, c), rpow(x, c) compute c - x, c / x, c ** x of
\* the Variable x and the constant c; with a Variable v they compute v - x,
\* v / x, v ** x on the inputs (v, x), whose gradients backward returns in
\* that order; and the installer binds __rsub__, __rdiv__, __rtruediv__,
\* __rpow__ to rsub, rdiv, rdiv, rpow and __radd__, __rmul__ to add, mul.
C4_ReversedOperators ==
    /\ call.fn \in {"rsub", "rdiv", "rpow"} /\ IsConstant(call.rhs) =>
         /\ call.out.constructed
         /\ call.out.args = <<call.lhs>>
         /\ call.out.ret = <<BinOp(ReversedOp(call.fn), call.rhs, LhsData)>>
    /\ call.fn \in {"rsub", "rdiv", "rpow"} /\ IsVariable(call.rhs) =>
         /\ call.out.constructed
         /\ call.out.inst.cls = TensorForm(call.fn)
         /\ call.out.args = <<call.rhs, call.lhs>>
         /\ call.out.ret = <<BinOp(ReversedOp(call.fn), DataOf(call.rhs), LhsData)>>
         /\ \A gy \in Grads :
              gy.shape = LhsData.shape =>
                Function_backward(call.out.inst, "cpu", <<DataOf(call.rhs), LhsData>>, <<gy>>).ret
                    = ReversedGradients(call.fn, DataOf(call.rhs), LhsData, gy)
    /\ slots # [s \in Slots |-> "unbound"] =>
         /\ slots["__rsub__"] = "rsub"
         /\ slots["__rdiv__"] = "rdiv" /\ slots["__rtruediv__"] = "rdiv"
         /\ slots["__rpow__"] = "rpow"
         /\ slots["__radd__"] = "add" /\ slots["__rmul__"] = "mul"
    /\ call.via = "__rsub__" => call.fn = "rsub"
    /\ call.via \in {"__rdiv__", "__rtruediv__"} => call.fn = "rdiv"
    /\ call.via = "__rpow__" => call.fn = "rpow"
    /\ call.via = "__radd__" => call.fn = "add"
    /\ call.via = "__rmul__" => call.fn = "mul"

C4_Witness ==
    /\ call.via = "__rsub__"
    /\ call.rhs = Number(I(2)) /\ LhsData = Array(<<I(-1)>>)
    /\ call.out.inst.cls = "SubFromConstant"
    /\ call.out.ret = <<Array(<<I(3)>>)>>

\* the constant 1/c and -c of the claim
Reciprocal(c) ==
    Obj(c.k, c.shape, [i \in 1..Len(c.data) |-> NDiv(I(1), c.data[i])])

Negated(c) == Obj(c.k, c.shape, [i \in 1..Len(c.data) |-> NNeg(c.data[i])])

ConstantOf(fn, c) ==
    CASE fn = "sub" -> Negated(c)
      [] fn = "div" -> Reciprocal(c)
      [] OTHER -> c

ForwardFns == {"add", "sub", "mul", "div", "pow"}

\* C5: a dispatch function applies the tensor-tensor form to both operands
\* when the second is a Variable; otherwise it constructs the constant form
\* (add -> AddConstant(c), sub -> AddConstant(-c), mul -> MulConstant(c),
\* div -> MulConstant(1/c), pow -> PowVarConst(c)) and applies it to the
\* first operand alone; each call constructs a new instance.
C5_DispatchSelection ==
    /\ call.fn \in ForwardFns /\ IsVariable(call.rhs) =>
         /\ call.out.constructed
         /\ call.out.inst.cls = TensorForm(call.fn)
         /\ call.out.args = <<call.lhs, call.rhs>>
    /\ call.fn \in ForwardFns /\ IsConstant(call.rhs) =>
         /\ call.out.constructed
         /\ call.out.inst.cls = ConstantForm(call.fn)
         /\ call.out.inst.value = ConstantOf(call.fn, call.rhs)
         /\ call.out.args = <<call.lhs>>
    /\ call.fn \in ForwardFns /\ (IsVariable(call.rhs) \/ IsConstant(call.rhs)) =>
         call.id = nobj /\ call.id # prevId

\* the selection holds for every constant but the Python number 0 given to
\* div, where 1. / rhs raises ZeroDivisionError
C5_SelectionExceptZeroDivisor ==
    /\ call.fn \in ForwardFns /\ IsVariable(call.rhs) =>
         /\ call.out.constructed
         /\ call.out.inst.cls = TensorForm(call.fn)
         /\ call.out.args = <<call.lhs, call.rhs>>
         /\ call.id = nobj /\ call.id # prevId
    /\ call.fn \in ForwardFns /\ IsConstant(call.rhs)
         /\ ~(call.fn = "div" /\ call.rhs = Number(I(0))) =>
         /\ call.out.constructed
         /\ call.out.inst.cls = ConstantForm(call.fn)
         /\ call.out.inst.value = ConstantOf(call.fn, call.rhs)
         /\ call.out.args = <<call.lhs>>
         /\ call.id = nobj /\ call.id # prevId
    /\ call.fn = "div" /\ call.rhs = Number(I(0)) =>
         ~call.out.constructed /\ call.out.ret = <<Raise("ZeroDivisionError")>>

=============================================================================
